---- MODULE Spec2Model ----
(***************************************************************************)
(* Model of app/src/split/bluetooth/central.c: the central side of the     *)
(* split keyboard link.  The file-scope statics of central.c are the       *)
(* program state; every callback the Bluetooth stack invokes is one        *)
(* action.  The stack itself (scan, connections, attribute walks,          *)
(* subscriptions) is the environment: each request the code issues has a   *)
(* nondeterministic outcome, and the stack delivers callbacks only for     *)
(* things that are pending in it.                                          *)
(***************************************************************************)
EXTENDS Integers, Sequences, FiniteSets, TLC

VARIABLES
    initialized,      \* zmk_split_bt_central_init has run (callbacks registered)
    default_conn,     \* static struct bt_conn *default_conn
    uuid,             \* static struct bt_uuid_128 uuid (its current contents)
    discover_params,  \* static struct bt_gatt_discover_params discover_params
    subscribe_params, \* static struct bt_gatt_subscribe_params subscribe_params
    position_state,   \* static u8_t position_state[16] of the notify handler
    scanning,         \* stack: passive scan is running
    link,             \* stack: state of the connection object of each peer
    walk,             \* stack: attribute walks in flight
    subs,             \* stack: connections on which subscribe_params is registered
    fault,            \* the firmware has stopped in a fault handler
    stack_layout,     \* what this build's stack layout makes of eir_found's overflow
    callbacks,        \* callbacks delivered so far
    reports,          \* advertising reports among them
    ops,              \* requests the last callback issued to the stack, in order
    events,           \* Position-Changed events the last callback raised, in order
    last,             \* the last callback and its arguments
    inert,            \* tracked connections whose security upgrade failed, until they disconnect
    keys              \* event sink: the key state all events raised so far add up to

vars == <<initialized, default_conn, uuid, discover_params, subscribe_params,
          position_state, scanning, link, walk, subs, fault, stack_layout,
          callbacks, reports, ops, events, last, inert, keys>>

(***************************************************************************)
(* Program constants                                                       *)
(***************************************************************************)
POSITION_STATE_DATA_LEN == 16
BT_GATT_CCC_NOTIFY == 1
FIRST_ATTRIBUTE_HANDLE == 1
LAST_ATTRIBUTE_HANDLE == 65535
U16 == 65536
NULL == 0

(***************************************************************************)
(* Bounds of the model                                                     *)
(***************************************************************************)
NumPeers == 2        \* remote devices (one connection object per peer)
MaxCallbacks == 6    \* callbacks delivered after initialisation
MaxReports == 2      \* advertising reports among the callbacks
NumByteVals == 3     \* byte values used in the decoder's bitmaps
NumVarBytes == 2     \* byte indices of a bitmap that vary in the decoder runs

Peers == 1..NumPeers

ByteSamples == <<0, 1, 128, 255, 90>>
VarByteIdx == <<0, 15, 7, 8>>

Min(a, b) == IF a < b THEN a ELSE b

\* Attribute handles a walk reports in the model: two ordinary ones and the
\* last of the 16-bit handle space.
Handles == {10, 20, 65535}

ByteIdx == 0..(POSITION_STATE_DATA_LEN - 1)

ZeroBitmap == [i \in ByteIdx |-> 0]

\* Bitmaps whose bytes at the first nIdx varying indices take the first
\* nVals sample values, all other bytes zero.
BitmapsOver(nVals, nIdx) ==
    LET vals == { ByteSamples[k] : k \in 1..Min(nVals, Len(ByteSamples)) }
        idxs == { VarByteIdx[k] : k \in 1..Min(nIdx, Len(VarByteIdx)) }
    IN  { [i \in ByteIdx |-> IF i \in idxs THEN f[i] ELSE 0] : f \in [idxs -> vals] }

DecodeBitmaps == BitmapsOver(NumByteVals, NumVarBytes)

\* Payloads notified on a live link: all keys released, key 0 pressed.
LinkPayloads == {ZeroBitmap, [ZeroBitmap EXCEPT ![0] = 1]}

\* Lengths reported with a notification: the bitmap length, one less, one more.
PayloadLengths == {POSITION_STATE_DATA_LEN - 1, POSITION_STATE_DATA_LEN,
                   POSITION_STATE_DATA_LEN + 1}

(***************************************************************************)
(* Bit operations on u8_t values, computed bit by bit                      *)
(***************************************************************************)
BIT(j) == 2 ^ j

RECURSIVE Xor8From(_, _, _)
Xor8From(a, b, j) ==
    IF j = 8 THEN 0
    ELSE (IF ((a \div BIT(j)) % 2) # ((b \div BIT(j)) % 2) THEN BIT(j) ELSE 0)
         + Xor8From(a, b, j + 1)

Xor8(a, b) == Xor8From(a, b, 0)

RECURSIVE And8From(_, _, _)
And8From(a, b, j) ==
    IF j = 8 THEN 0
    ELSE (IF ((a \div BIT(j)) % 2) = 1 /\ ((b \div BIT(j)) % 2) = 1 THEN BIT(j) ELSE 0)
         + And8From(a, b, j + 1)

And8(a, b) == And8From(a, b, 0)

(***************************************************************************)
(* split_central_notify_func                                               *)
(***************************************************************************)
\* A first loop that copies the payload without the exclusive or; the
\* decoder's exactness depends on the difference.
ChangedPositionsNoXor(data, state) == [i \in ByteIdx |-> data[i]]

\* First loop (lines 50-53): changed_positions[i] = data[i] ^ position_state[i]
ChangedPositions(data, state) == [i \in ByteIdx |-> Xor8(data[i], state[i])]

\* Second loop (lines 55-68): the events raised for byte i from bit j upwards.
RECURSIVE RaiseBits(_, _, _, _)
RaiseBits(changed, state, i, j) ==
    IF j = 8 THEN <<>>
    ELSE (IF And8(changed[i], BIT(j)) # 0
          THEN << [position |-> (i * 8) + j,
                   state |-> (And8(state[i], BIT(j)) # 0)] >>
          ELSE <<>>)
         \o RaiseBits(changed, state, i, j + 1)

RECURSIVE RaiseBytes(_, _, _)
RaiseBytes(changed, state, i) ==
    IF i = POSITION_STATE_DATA_LEN THEN <<>>
    ELSE RaiseBits(changed, state, i, 0) \o RaiseBytes(changed, state, i + 1)


\* A handler that returns on an absent payload without clearing the record.
NotifyFuncKeepsRecord(s, present, data) ==
    IF ~present THEN s
    ELSE [s EXCEPT !.position_state = data,
                   !.events = @ \o RaiseBytes(ChangedPositions(data, s.position_state),
                                              data, 0)]

\* A handler that raises the events of the difference but does not store the
\* payload as the new bitmap.
NotifyFuncNoStore(s, present, data) ==
    IF ~present
    THEN [s EXCEPT !.subscribe_params.value_handle = 0]
    ELSE [s EXCEPT !.events = @ \o RaiseBytes(ChangedPositions(data, s.position_state),
                                              data, 0)]

\* The handler's effect on the program state: lines 42-46 for an absent
\* payload, lines 50-71 otherwise.  data is the 16 bytes the handler reads at
\* the payload address (the handler never looks at length); present is
\* whether the data pointer is non-null.
NotifyFunc(s, present, data) ==
    IF ~present
    THEN [s EXCEPT !.subscribe_params.value_handle = 0]
    ELSE LET changed == ChangedPositions(data, s.position_state)
         IN  [s EXCEPT !.position_state = data,
                       !.events = @ \o RaiseBytes(changed, data, 0)]

(***************************************************************************)
(* The program state as one record, and the Bluetooth stack's requests     *)
(***************************************************************************)
ZeroDiscoverParams ==
    [uuid |-> "NULL", func |-> "NULL", start_handle |-> 0, end_handle |-> 0,
     type |-> "PRIMARY"]

ZeroSubscribeParams ==
    [notify |-> "NULL", value |-> 0, value_handle |-> 0, ccc_handle |-> 0]

St ==
    [default_conn |-> default_conn, uuid |-> uuid,
     discover_params |-> discover_params, subscribe_params |-> subscribe_params,
     position_state |-> position_state, scanning |-> scanning, link |-> link,
     walk |-> walk, subs |-> subs, fault |-> fault,
     stack_layout |-> stack_layout, ops |-> <<>>, events |-> <<>>]

\* One request to the stack and how it ended.
Op(name, conn, err) ==
    [op |-> name, conn |-> conn, err |-> err, type |-> "NONE", uuid |-> "NONE",
     start_handle |-> 0, end_handle |-> 0]

Log(s, name, conn, err) == [s EXCEPT !.ops = Append(@, Op(name, conn, err))]

\* bt_le_scan_start: -EALREADY while the scan is running, otherwise it starts
\* the scan or fails in the controller.
start_scan(s) ==
    IF s.scanning
    THEN { Log(s, "scan_start", NULL, "EALREADY") }
    ELSE { Log([s EXCEPT !.scanning = TRUE], "scan_start", NULL, "OK"),
           Log(s, "scan_start", NULL, "EIO") }

\* bt_le_scan_stop, as a set of [s, err] outcomes.
scan_stop(s) ==
    IF s.scanning
    THEN { [s |-> Log([s EXCEPT !.scanning = FALSE], "scan_stop", NULL, "OK"), err |-> "OK"],
           [s |-> Log(s, "scan_stop", NULL, "EIO"), err |-> "EIO"] }
    ELSE { [s |-> Log(s, "scan_stop", NULL, "EALREADY"), err |-> "EALREADY"] }

\* What discover_params.uuid points at when the walk is requested.
TargetOf(s) == IF s.discover_params.uuid = "NULL" THEN "NULL" ELSE s.uuid

\* bt_gatt_discover(conn, &discover_params): needs a connected link; the walk
\* in flight remembers the request that was sent.
gatt_discover(s, conn) ==
    LET req == [conn |-> conn, type |-> s.discover_params.type,
                uuid |-> TargetOf(s),
                start_handle |-> s.discover_params.start_handle,
                end_handle |-> s.discover_params.end_handle]
        asked(err) == [op |-> "discover", conn |-> conn, err |-> err,
                       type |-> req.type, uuid |-> req.uuid,
                       start_handle |-> req.start_handle,
                       end_handle |-> req.end_handle]
        refused(err) == [s |-> [s EXCEPT !.ops = Append(@, asked(err))], err |-> err]
    IN  IF s.link[conn] # "connected"
        THEN { refused("ENOTCONN") }
        ELSE { [s |-> [s EXCEPT !.walk = @ \cup {req}, !.ops = Append(@, asked("OK"))],
                err |-> "OK"],
               refused("ENOMEM") }

\* bt_gatt_subscribe(conn, &subscribe_params)
gatt_subscribe(s, conn) ==
    IF s.link[conn] # "connected"
    THEN { Log(s, "subscribe", conn, "ENOTCONN") }
    ELSE IF conn \in s.subs
    THEN { Log(s, "subscribe", conn, "EALREADY") }
    ELSE { Log([s EXCEPT !.subs = @ \cup {conn}], "subscribe", conn, "OK"),
           Log(s, "subscribe", conn, "ENOMEM") }

\* bt_conn_set_security(conn, BT_SECURITY_L2), as a set of [s, err] outcomes.
conn_set_security(s, conn) ==
    IF s.link[conn] # "connected"
    THEN { [s |-> Log(s, "set_security", conn, "ENOTCONN"), err |-> "ENOTCONN"] }
    ELSE { [s |-> Log(s, "set_security", conn, "OK"), err |-> "OK"],
           [s |-> Log(s, "set_security", conn, "EIO"), err |-> "EIO"] }


\* The firmware stops in a fault handler.
Fault(s) == [s EXCEPT !.fault = TRUE]

(***************************************************************************)
(* split_central_discovery_func                                            *)
(***************************************************************************)
\* uuid = characteristic UUID; the characteristic walk starts after the
\* matched attribute (lines 89-97).  start_handle is a u16_t.
DiscoverCharacteristic(s, conn, attr) ==
    LET s1 == [s EXCEPT !.uuid = "CHAR",
                        !.discover_params.uuid = "&uuid",
                        !.discover_params.start_handle = (attr.handle + 1) % U16,
                        !.discover_params.type = "CHARACTERISTIC"]
    IN  { r.s : r \in gatt_discover(s1, conn) }

\* uuid = CCC UUID; the descriptor walk starts two after the matched
\* attribute, and the value handle is recorded (lines 100-109).
DiscoverDescriptor(s, conn, attr) ==
    LET s1 == [s EXCEPT !.uuid = "CCC",
                        !.discover_params.uuid = "&uuid",
                        !.discover_params.start_handle = (attr.handle + 2) % U16,
                        !.discover_params.type = "DESCRIPTOR",
                        !.subscribe_params.value_handle = attr.value_handle]
    IN  { r.s : r \in gatt_discover(s1, conn) }

\* A subscribe step that takes -EALREADY for a failure and gives up the
\* subscription record.
SubscribeAlreadyFails(s, conn, attr) ==
    LET s1 == [s EXCEPT !.subscribe_params.notify = "split_central_notify_func",
                        !.subscribe_params.value = BT_GATT_CCC_NOTIFY,
                        !.subscribe_params.ccc_handle = attr.handle]
    IN  { IF r.ops[Len(r.ops)].err = "EALREADY"
          THEN [r EXCEPT !.subscribe_params.value_handle = 0]
          ELSE r
        : r \in gatt_subscribe(s1, conn) }

\* Lines 111-122: subscribe with the matched attribute as the CCC handle.
Subscribe(s, conn, attr) ==
    LET s1 == [s EXCEPT !.subscribe_params.notify = "split_central_notify_func",
                        !.subscribe_params.value = BT_GATT_CCC_NOTIFY,
                        !.subscribe_params.ccc_handle = attr.handle]
    IN  gatt_subscribe(s1, conn)

\* attr is [present, handle, value_handle]; the result is the set of states the
\* handler can leave.  The phase is decided by what discover_params.uuid
\* points at (lines 88, 98, 110).  With discover_params.uuid null the
\* comparison reads through a null pointer: any branch, or a fault.
split_central_discovery_func(s, conn, attr) ==
    IF ~attr.present
    THEN { [s EXCEPT !.discover_params = ZeroDiscoverParams] }
    ELSE CASE TargetOf(s) = "SERVICE" -> DiscoverCharacteristic(s, conn, attr)
           [] TargetOf(s) = "CHAR" -> DiscoverDescriptor(s, conn, attr)
           [] TargetOf(s) = "NULL" ->
                  DiscoverCharacteristic(s, conn, attr)
                  \cup DiscoverDescriptor(s, conn, attr)
                  \cup Subscribe(s, conn, attr) \cup { Fault(s) }
           [] OTHER -> Subscribe(s, conn, attr)

(***************************************************************************)
(* split_central_process_connection                                        *)
(***************************************************************************)
\* Lines 139-150: the service walk over the whole handle range.  The static
\* uuid is pointed at, not rewritten.
StartDiscovery(s) ==
    LET s1 == [s EXCEPT !.discover_params =
                   [uuid |-> "&uuid", func |-> "split_central_discovery_func",
                    start_handle |-> FIRST_ATTRIBUTE_HANDLE,
                    end_handle |-> LAST_ATTRIBUTE_HANDLE,
                    type |-> "PRIMARY"]]
    IN  { r.s : r \in gatt_discover(s1, s1.default_conn) }

split_central_process_connection(s, conn) ==
    UNION { IF r.err # "OK" THEN { r.s }
            ELSE IF conn = r.s.default_conn THEN StartDiscovery(r.s)
            ELSE { r.s }
          : r \in conn_set_security(s, conn) }


(***************************************************************************)
(* Advertisements                                                          *)
(***************************************************************************)
\* An advertisement is a sequence of data elements; a UUID128 element holds
\* data_len bytes, 16 per UUID.  "SERVICE" is ZMK_SPLIT_BT_SERVICE_UUID.
Element(type, data_len, uuids) == [type |-> type, data_len |-> data_len, uuids |-> uuids]

\* The advertising reports of the model: the event type and the data.
Report(type, ad) == [type |-> type, ad |-> ad]

AdSamples ==
    << Report("ADV_IND", << Element("FLAGS", 1, <<>>),
                            Element("UUID128_ALL", 16, <<"SERVICE">>) >>),
       Report("ADV_IND", << Element("UUID128_ALL", 16, <<"OTHER">>) >>),
       Report("ADV_DIRECT_IND", << Element("UUID128_ALL", 17, <<"OTHER">>),
                                   Element("UUID128_SOME", 32, <<"OTHER", "SERVICE">>) >>),
       Report("ADV_SCAN_IND", << Element("UUID128_ALL", 16, <<"OTHER">>) >>) >>

AdIds == 1..Len(AdSamples)

\* bt_uuid_create writes 17 bytes into the one-byte local struct bt_uuid
\* (line 177, 180), so what bt_uuid_cmp then reads is not defined.  It is
\* settled by the stack layout of the build: the bytes just written
\* ("readback"), or bytes that compare equal, or unequal, to the service UUID.
UuidOutcomes == {"readback", "equal", "unequal"}

\* bt_uuid_cmp(&uuid, service UUID): TRUE when it returns nonzero.
UuidCmp(u, ub) ==
    CASE ub = "readback" -> u # "SERVICE"
      [] ub = "equal" -> FALSE
      [] OTHER -> TRUE

(***************************************************************************)
(* split_central_eir_found                                                 *)
(***************************************************************************)
\* bt_conn_lookup_addr_le: the connection object of this peer, if one exists.
conn_lookup_addr_le(s, addr) == IF s.link[addr] # "idle" THEN addr ELSE NULL

\* Lines 208-220: create the connection, then ask for the 2M PHY; each
\* failure restarts the scan.
CreateConnection(s, addr) ==
    LET created == { Log([s EXCEPT !.default_conn = addr, !.link[addr] = "initiating"],
                         "create", addr, "OK") }
        refused == start_scan(Log(s, "create", addr, "EINVAL"))
    IN  UNION { { Log(c, "phy_update", c.default_conn, "OK") }
                \cup start_scan(Log(c, "phy_update", c.default_conn, "EIO"))
              : c \in created \cup refused }

\* Lines 195-223, once a UUID has passed the comparison; the result is a set
\* of [s, stopped]: stopped is FALSE when bt_le_scan_stop failed (continue).
FoundSplitService(s, addr) ==
    UNION { IF r.err # "OK" THEN { [s |-> r.s, stopped |-> FALSE] }
            ELSE LET s1 == [r.s EXCEPT !.default_conn = conn_lookup_addr_le(r.s, addr)]
                 IN  { [s |-> x, stopped |-> TRUE]
                       : x \in IF s1.default_conn # NULL
                               THEN split_central_process_connection(s1, s1.default_conn)
                               ELSE CreateConnection(s1, addr) }
          : r \in scan_stop(s) }

\* The loop of lines 175-224 from the i-th UUID of the element on; the result
\* is a set of [s, cont], cont being eir_found's return value.
RECURSIVE EirLoop(_, _, _, _)
EirLoop(s, uuids, i, addr) ==
    IF i > Len(uuids) THEN { [s |-> s, cont |-> TRUE] }
    ELSE IF ~UuidCmp(uuids[i], s.stack_layout)
    THEN EirLoop(s, uuids, i + 1, addr)
    ELSE UNION { IF r.stopped THEN { [s |-> r.s, cont |-> FALSE] }
                 ELSE EirLoop(r.s, uuids, i + 1, addr)
               : r \in FoundSplitService(s, addr) }

split_central_eir_found(s, data, addr) ==
    IF data.type \notin {"UUID128_SOME", "UUID128_ALL"} THEN { [s |-> s, cont |-> TRUE] }
    ELSE IF data.data_len % 16 # 0 THEN { [s |-> s, cont |-> TRUE] }
    ELSE EirLoop(s, data.uuids, 1, addr)

\* bt_data_parse: the elements in order until the callback returns false.
RECURSIVE data_parse(_, _, _, _)
data_parse(s, ad, k, addr) ==
    IF k > Len(ad) THEN { s }
    ELSE UNION { IF r.cont THEN data_parse(r.s, ad, k + 1, addr) ELSE { r.s }
               : r \in split_central_eir_found(s, ad[k], addr) }

(***************************************************************************)
(* split_central_device_found, connected, disconnected, init               *)
(***************************************************************************)
split_central_device_found(s, addr, type, ad) ==
    IF type = "ADV_IND" \/ type = "ADV_DIRECT_IND"
    THEN data_parse(s, ad, 1, addr)
    ELSE { s }

\* bt_conn_unref(default_conn) with default_conn null writes through a null
\* pointer: the write is lost, or the firmware faults.
conn_unref(s) == IF s.default_conn = NULL THEN { s, Fault(s) } ELSE { s }

\* A connected handler that releases the handle after a failed attempt but
\* does not start the scan.
ConnectedWithoutScan(s, conn, conn_err) ==
    IF conn_err # 0
    THEN { IF u.fault THEN u ELSE [u EXCEPT !.default_conn = NULL]
           : u \in conn_unref(s) }
    ELSE split_central_process_connection(s, conn)

split_central_connected(s, conn, conn_err) ==
    IF conn_err # 0
    THEN UNION { IF u.fault THEN { u }
                 ELSE start_scan([u EXCEPT !.default_conn = NULL])
               : u \in conn_unref(s) }
    ELSE split_central_process_connection(s, conn)

\* A disconnect handler that releases the handle but leaves the scan alone.
DisconnectedWithoutScan(s, conn) ==
    IF s.default_conn # conn THEN { s }
    ELSE { [s EXCEPT !.default_conn = NULL] }

\* A disconnect handler without the test of line 289.
DisconnectedAnyConn(s, conn) == start_scan([s EXCEPT !.default_conn = NULL])

split_central_disconnected(s, conn) ==
    IF s.default_conn # conn THEN { s }
    ELSE start_scan([s EXCEPT !.default_conn = NULL])

zmk_split_bt_central_init(s) == start_scan(s)


(***************************************************************************)
(* The state machine: one action per callback of the stack                 *)
(***************************************************************************)
\* The record kept of the last callback: its name and arguments, and the
\* tracked connection and stored bitmap it found.
NoCall ==
    [cb |-> "none", conn |-> NULL, err |-> 0, ad |-> 0,
     present |-> FALSE, handle |-> 0, walk_type |-> "NONE",
     data |-> <<>>, length |-> 0, walk_start |-> 0,
     prev_conn |-> default_conn, prev_state |-> <<>>]

\* The listeners of position_state_changed keep the key state: an event sets
\* or clears the bit of its position (line 61, 62, 65).
KeyAfter(k, ev) ==
    LET i == ev.position \div 8
        b == BIT(ev.position % 8)
        cleared == k[i] - And8(k[i], b)
    IN  [k EXCEPT ![i] = IF ev.state THEN cleared + b ELSE cleared]

RECURSIVE KeysAfter(_, _, _)
KeysAfter(k, evs, n) ==
    IF n > Len(evs) THEN k ELSE KeysAfter(KeyAfter(k, evs[n]), evs, n + 1)

\* The connections whose bt_conn_set_security request the callback saw fail.
SecurityFailures(s) ==
    { s.ops[i].conn : i \in { j \in DOMAIN s.ops :
                                 s.ops[j].op = "set_security" /\ s.ops[j].err # "OK" } }

Apply(s, l) ==
    /\ default_conn' = s.default_conn
    /\ uuid' = s.uuid
    /\ discover_params' = s.discover_params
    /\ subscribe_params' = s.subscribe_params
    /\ position_state' = s.position_state
    /\ scanning' = s.scanning
    /\ link' = s.link
    /\ walk' = s.walk
    /\ subs' = s.subs
    /\ fault' = s.fault
    /\ stack_layout' = s.stack_layout
    /\ callbacks' = IF l.cb = "init" THEN callbacks ELSE callbacks + 1
    /\ reports' = IF l.cb = "device_found" THEN reports + 1 ELSE reports
    /\ ops' = s.ops
    /\ events' = s.events
    /\ last' = l
    /\ inert' = IF l.cb = "disconnected" THEN inert \ {l.conn}
                ELSE inert \cup (SecurityFailures(s) \cap {s.default_conn})
    /\ keys' = KeysAfter(keys, s.events, 1)

Init ==
    /\ initialized = FALSE
    /\ default_conn = NULL
    /\ uuid = "SERVICE"
    /\ discover_params = ZeroDiscoverParams
    /\ subscribe_params = ZeroSubscribeParams
    /\ position_state = ZeroBitmap
    /\ scanning = FALSE
    /\ link = [p \in Peers |-> "idle"]
    /\ walk = {}
    /\ subs = {}
    /\ fault = FALSE
    /\ ops = <<>>
    /\ events = <<>>
    /\ stack_layout \in UuidOutcomes
    /\ callbacks = 0
    /\ reports = 0
    /\ last = [cb |-> "none", conn |-> NULL, err |-> 0, ad |-> 0,
               present |-> FALSE, handle |-> 0, walk_type |-> "NONE",
               data |-> <<>>, length |-> 0, walk_start |-> 0,
               prev_conn |-> NULL, prev_state |-> <<>>]
    /\ inert = {}
    /\ keys = ZeroBitmap

\* SYS_INIT(zmk_split_bt_central_init, ...): registers the connection
\* callbacks and starts the scan.
CentralInit ==
    /\ ~initialized
    /\ initialized' = TRUE
    /\ \E r \in zmk_split_bt_central_init(St) :
           Apply(r, [NoCall EXCEPT !.cb = "init"])

Running == initialized /\ ~fault /\ callbacks < MaxCallbacks

\* The scan reports an advertisement of a peer.
DeviceFound ==
    /\ Running
    /\ scanning
    /\ reports < MaxReports
    /\ UNCHANGED initialized
    /\ \E addr \in Peers, a \in AdIds :
         \E r \in split_central_device_found(St, addr, AdSamples[a].type,
                                              AdSamples[a].ad) :
             Apply(r, [NoCall EXCEPT !.cb = "device_found", !.conn = addr, !.ad = a])

\* A connection attempt this code started completes or fails, or a peer
\* connects on its own (the device is also a peripheral of its host).
Connected ==
    /\ Running
    /\ UNCHANGED initialized
    /\ \E conn \in Peers, conn_err \in {0, 62} :
         /\ \/ link[conn] = "initiating"
            \/ link[conn] = "idle" /\ conn_err = 0
         /\ LET s == [St EXCEPT !.link[conn] =
                         IF conn_err = 0 THEN "connected" ELSE "idle"]
            IN  \E r \in split_central_connected(s, conn, conn_err) :
                    Apply(r, [NoCall EXCEPT !.cb = "connected", !.conn = conn,
                                            !.err = conn_err])

\* A connected link goes down.  The stack ends the link's pending walk with
\* an end-of-walk callback before it reports the disconnection.
Disconnected ==
    /\ Running
    /\ UNCHANGED initialized
    /\ \E conn \in Peers :
         /\ link[conn] = "connected"
         /\ \A w \in walk : w.conn # conn
         /\ LET s == [St EXCEPT !.link[conn] = "idle"]
            IN  \E r \in split_central_disconnected(s, conn) :
                    Apply(r, [NoCall EXCEPT !.cb = "disconnected", !.conn = conn])

\* The attributes a walk can report: inside the requested range, which
\* cannot start at the invalid handle 0.
Reportable(w) ==
    { h \in Handles : w.start_handle # 0 /\ w.start_handle <= h /\ h <= w.end_handle }

\* bt_gatt_attr_value_handle: the value handle of a characteristic
\* declaration, 0 for any other attribute.
attr_value_handle(w, h) == IF w.type = "CHARACTERISTIC" THEN (h + 1) % U16 ELSE 0

Attrs(w) ==
    { [present |-> FALSE, handle |-> 0, value_handle |-> 0] }
    \cup { [present |-> TRUE, handle |-> h, value_handle |-> attr_value_handle(w, h)]
           : h \in Reportable(w) }

\* A walk in flight reports an attribute, or its end.  The handler always
\* returns BT_GATT_ITER_STOP, so the walk is over either way.
DiscoveryResult ==
    /\ Running
    /\ UNCHANGED initialized
    /\ \E w \in walk : \E attr \in Attrs(w) :
         LET s == [St EXCEPT !.walk = @ \ {w}]
         IN  \E r \in split_central_discovery_func(s, w.conn, attr) :
                 Apply(r, [NoCall EXCEPT !.cb = "discovery", !.conn = w.conn,
                                         !.present = attr.present,
                                         !.handle = attr.handle,
                                         !.walk_type = w.type,
                                         !.walk_start = w.start_handle])

\* A notification arrives for the registered subscription and the stack
\* hands it to subscribe_params.notify.  The handler reads 16 bytes at the
\* payload address whatever the length is.
NotificationOf(payloads) ==
    /\ Running
    /\ UNCHANGED initialized
    /\ subscribe_params.value_handle # 0
    /\ \E conn \in subs, data \in payloads, length \in PayloadLengths :
         /\ link[conn] = "connected"
         /\ Apply(NotifyFunc(St, TRUE, data),
                  [NoCall EXCEPT !.cb = "notify", !.conn = conn, !.present = TRUE,
                                 !.data = data, !.length = length,
                                 !.prev_state = position_state])

Notification == NotificationOf(LinkPayloads)

\* The stack drops the subscription and tells the handler with a null payload.
Unsubscribed ==
    /\ Running
    /\ UNCHANGED initialized
    /\ \E conn \in subs :
         Apply(NotifyFunc([St EXCEPT !.subs = @ \ {conn}], FALSE, ZeroBitmap),
               [NoCall EXCEPT !.cb = "notify", !.conn = conn])

Next ==
    \/ CentralInit
    \/ DeviceFound
    \/ Connected
    \/ Disconnected
    \/ DiscoveryResult
    \/ Notification
    \/ Unsubscribed

Spec == Init /\ [][Next]_vars

(***************************************************************************)
(* A subscribed link                                                       *)
(***************************************************************************)
\* The state after the three discovery phases matched at handles 10, 20 and
\* 0xFFFF (handles of the model's attribute table) on the tracked link of
\* peer 1 and the subscription was registered;
\* left callbacks are still to come, state is the stored bitmap, and scan is
\* whether the scan was restarted since (a failed PHY request does that).
Subscribed(state, scan, left) ==
    /\ initialized = TRUE
    /\ default_conn = 1
    /\ uuid = "CCC"
    /\ discover_params =
           [uuid |-> "&uuid", func |-> "split_central_discovery_func",
            start_handle |-> 22, end_handle |-> LAST_ATTRIBUTE_HANDLE,
            type |-> "DESCRIPTOR"]
    /\ subscribe_params =
           [notify |-> "split_central_notify_func", value |-> BT_GATT_CCC_NOTIFY,
            value_handle |-> 21, ccc_handle |-> LAST_ATTRIBUTE_HANDLE]
    /\ position_state = state
    /\ scanning = scan
    /\ link = [p \in Peers |-> IF p = 1 THEN "connected" ELSE "idle"]
    /\ walk = {}
    /\ subs = {1}
    /\ fault = FALSE
    /\ stack_layout = "readback"
    /\ callbacks = MaxCallbacks - left
    /\ reports = 1
    /\ ops = << Op("subscribe", 1, "OK") >>
    /\ events = <<>>
    /\ last = [cb |-> "discovery", conn |-> 1, err |-> 0, ad |-> 0,
               present |-> TRUE, handle |-> LAST_ATTRIBUTE_HANDLE,
               walk_type |-> "DESCRIPTOR",
               data |-> <<>>, length |-> 0, walk_start |-> 22,
               prev_conn |-> 1, prev_state |-> <<>>]
    /\ inert = {}
    /\ keys = state

\* The decoder on its own: any stored bitmap, one notification of any payload.
InitDecode == \E state \in DecodeBitmaps : Subscribed(state, FALSE, 1)

DecodeNotification == NotificationOf(DecodeBitmaps)

NextDecode ==
    \/ DecodeNotification
    \/ Unsubscribed

SpecDecode == InitDecode /\ [][NextDecode]_vars

\* A notification arrives on a link that has no registered subscription: the
\* stack finds no subscribe_params to hand it to, and no handler runs.
NotificationDropped ==
    /\ initialized /\ ~fault
    /\ last.cb # "notify_dropped"
    /\ \E conn \in Peers :
         /\ link[conn] = "connected"
         /\ conn \notin subs
         /\ last' = [NoCall EXCEPT !.cb = "notify_dropped", !.conn = conn]
    /\ ops' = <<>>
    /\ events' = <<>>
    /\ UNCHANGED <<initialized, default_conn, uuid, discover_params,
                   subscribe_params, position_state, scanning, link, walk, subs,
                   fault, stack_layout, callbacks, reports, inert, keys>>

\* The subscribed link for a few more callbacks, dropped notifications
\* included.
LinkCallbacks == 4

InitLink == \E scan \in BOOLEAN : Subscribed(ZeroBitmap, scan, LinkCallbacks)

NextLink ==
    \/ DeviceFound
    \/ DiscoveryResult
    \/ Notification
    \/ Unsubscribed
    \/ NotificationDropped

SpecLink == InitLink /\ [][NextLink]_vars


(***************************************************************************)
(* Properties                                                              *)
(***************************************************************************)
\* Bit p of a bitmap: bit p % 8 of byte p \div 8.
BitAt(bitmap, p) == (bitmap[p \div 8] \div (2 ^ (p % 8))) % 2

Positions == 0..(POSITION_STATE_DATA_LEN * 8 - 1)

Differing(prev, cur) == { p \in Positions : BitAt(prev, p) # BitAt(cur, p) }

IssuedOps(name) == { i \in DOMAIN ops : ops[i].op = name }

\* C1: a notification with a 16-byte payload raises exactly one event for
\* each position whose bit differs between the stored bitmap and the
\* payload, none for any other position, each with the payload's bit as its
\* pressed value, in strictly ascending position order.
C1_DecodeExact ==
    (last.cb = "notify" /\ last.present /\ last.length = POSITION_STATE_DATA_LEN) =>
        /\ Len(events) = Cardinality(Differing(last.prev_state, last.data))
        /\ \A k \in DOMAIN events :
              /\ events[k].position \in Differing(last.prev_state, last.data)
              /\ events[k].state = (BitAt(last.data, events[k].position) = 1)
        /\ \A k \in 1..(Len(events) - 1) :
              events[k].position < events[k + 1].position

\* A 16-byte notification that released position 0 and pressed position 127,
\* with a third change in between.
C1_Witness ==
    /\ last.cb = "notify" /\ last.present
    /\ last.length = POSITION_STATE_DATA_LEN
    /\ Len(events) >= 3
    /\ events[1] = [position |-> 0, state |-> FALSE]
    /\ events[Len(events)] = [position |-> 127, state |-> TRUE]

\* The 128-bit UUID elements of an advertisement sample, and whether the
\* target UUID is among their UUIDs.
Uuid128Elements(a) ==
    { k \in DOMAIN AdSamples[a].ad :
          AdSamples[a].ad[k].type \in {"UUID128_SOME", "UUID128_ALL"} }

Connectable(a) == AdSamples[a].type \in {"ADV_IND", "ADV_DIRECT_IND"}

SingleTargetElement(a) ==
    \E k \in DOMAIN AdSamples[a].ad :
        /\ Uuid128Elements(a) = {k}
        /\ AdSamples[a].ad[k] = Element("UUID128_ALL", 16, <<"SERVICE">>)

NoTargetUuid(a) ==
    \A k \in Uuid128Elements(a) :
        \A j \in DOMAIN AdSamples[a].ad[k].uuids :
            AdSamples[a].ad[k].uuids[j] # "SERVICE"

\* C2: with no tracked connection, a connectable advertisement that carries
\* the target service UUID as a single UUID128_ALL element makes the handler
\* ask the stack to stop the scan and, once the scan is stopped, to connect
\* to the advertiser (or to take up the connection that peer already has).
\* Stated for the build in which the comparison reads back the UUID that
\* was loaded.
C2_TargetAdvertisementConnects ==
    (/\ last.cb = "device_found"
     /\ stack_layout = "readback"
     /\ last.prev_conn = NULL
     /\ Connectable(last.ad)
     /\ SingleTargetElement(last.ad)) =>
        /\ IssuedOps("scan_stop") # {}
        /\ (\E i \in IssuedOps("scan_stop") : ops[i].err = "OK") =>
              \E j \in DOMAIN ops :
                  /\ ops[j].op \in {"create", "set_security"}
                  /\ ops[j].conn = last.conn

\* C3: an advertisement whose 128-bit UUID elements are all different from
\* the target UUID never stops the scan and never changes the tracked
\* connection.  Stated for the build in which the comparison reads back the
\* UUID that was loaded.
C3_OnlyTargetStopsScan ==
    (last.cb = "device_found" /\ stack_layout = "readback"
        /\ NoTargetUuid(last.ad)) =>
        /\ IssuedOps("scan_stop") = {}
        /\ default_conn = last.prev_conn

\* C4: every service walk that the connection handling starts (on a
\* connection, a reconnection or a reused connection) asks for the service
\* UUID over the range [0x0001, 0xFFFF].
C4_DiscoveryStartsAtService ==
    last.cb \in {"connected", "device_found"} =>
        \A i \in IssuedOps("discover") :
            /\ ops[i].type = "PRIMARY"
            /\ ops[i].uuid = "SERVICE"
            /\ ops[i].start_handle = FIRST_ATTRIBUTE_HANDLE
            /\ ops[i].end_handle = LAST_ATTRIBUTE_HANDLE

\* C5: a result of the service walk at handle h issues the characteristic
\* walk from h + 1 for the key-state characteristic UUID; a result of the
\* characteristic walk at handle h issues the descriptor walk from h + 2 for
\* the CCC UUID.
C5_WalkAdvances ==
    (last.cb = "discovery" /\ last.present
        /\ last.walk_type \in {"PRIMARY", "CHARACTERISTIC"}) =>
        \E i \in IssuedOps("discover") :
            IF last.walk_type = "PRIMARY"
            THEN /\ ops[i].type = "CHARACTERISTIC"
                 /\ ops[i].uuid = "CHAR"
                 /\ ops[i].start_handle = last.handle + 1
            ELSE /\ ops[i].type = "DESCRIPTOR"
                 /\ ops[i].uuid = "CCC"
                 /\ ops[i].start_handle = last.handle + 2

\* C6: a disconnect callback for the tracked connection, at any stage,
\* releases the tracked handle and asks the stack to start the scan, which
\* then runs unless the controller refused to start it.
C6_TrackedDisconnectRescans ==
    (last.cb = "disconnected" /\ last.conn = last.prev_conn) =>
        /\ default_conn = NULL
        /\ Len(ops) = 1
        /\ ops[1].op = "scan_start"
        /\ (ops[1].err # "EIO" => scanning)

\* The tracked link went down while its subscription was registered, and the
\* scan runs again.
C6_Witness ==
    /\ last.cb = "disconnected"
    /\ last.conn = last.prev_conn
    /\ last.conn \in subs
    /\ subscribe_params.value_handle # 0
    /\ default_conn = NULL
    /\ scanning

\* C7: a disconnect callback for a connection other than the tracked one
\* leaves the tracked connection, the discovery cursor, the subscription
\* record, the stored bitmap and the scanning state unchanged.
C7_OtherDisconnectIgnored ==
    [][(last'.cb = "disconnected" /\ last'.conn # default_conn) =>
           UNCHANGED <<default_conn, uuid, discover_params, subscribe_params,
                       position_state, scanning>>]_vars

\* A link other than the tracked one went down while one was tracked.
C7_Witness ==
    /\ last.cb = "disconnected"
    /\ last.prev_conn # NULL
    /\ last.conn # last.prev_conn
    /\ default_conn = last.prev_conn

C9_LengthMismatchRaisesNothing ==
    (last.cb = "notify" /\ last.present
        /\ last.length # POSITION_STATE_DATA_LEN) => events = <<>>

\* C10: while a connection or connection attempt is tracked, an advertising
\* report issues no connect request and does not overwrite the tracked handle.
C10_NoConnectWhileTracked ==
    (last.cb = "device_found" /\ last.prev_conn # NULL) =>
        /\ IssuedOps("create") = {}
        /\ default_conn = last.prev_conn

\* C11: a discovery result (an attribute) or a notification (a payload)
\* delivered for a connection other than the tracked one is discarded: it
\* issues no request, raises no event, and leaves the discovery cursor, the
\* subscription record and the stored bitmap as they were.
C11_StaleResultDiscarded ==
    [][(last'.cb \in {"discovery", "notify"} /\ last'.present
           /\ last'.conn # default_conn) =>
           /\ ops' = <<>>
           /\ events' = <<>>
           /\ UNCHANGED <<uuid, discover_params, subscribe_params,
                          position_state>>]_vars

\* C12: the stored bitmap is all-zero whenever a new subscription begins,
\* that is, in the state a successful subscribe request leaves.
C12_BitmapZeroAtSubscription ==
    (last.cb = "discovery"
        /\ \E i \in IssuedOps("subscribe") : ops[i].err = "OK") =>
        position_state = ZeroBitmap

\* The immediate effect of a failed security upgrade: the callback starts no
\* walk and no scan, and the tracked handle stays (for a reused connection it
\* is the connection just looked up).
NoWalkOnSecurityFailure ==
    (last.cb \in {"connected", "device_found"} /\ SecurityFailures([ops |-> ops]) # {}) =>
        /\ IssuedOps("discover") = {}
        /\ IssuedOps("scan_start") = {}
        /\ default_conn = IF last.cb = "connected" THEN last.prev_conn ELSE last.conn

\* No subscription is registered on a tracked connection whose security
\* upgrade failed, as long as it has not disconnected.
InertUntilDisconnect ==
    \A i \in IssuedOps("subscribe") : ops[i].err = "OK" => ops[i].conn \notin inert

\* C13: when the security upgrade fails after a connect completion or for a
\* reused connection, no walk is started, the handle is not released, the
\* scan is not restarted, and no subscription is armed on that connection
\* until it disconnects.
C13_SecurityFailureLeavesInert == NoWalkOnSecurityFailure /\ InertUntilDisconnect

\* C14: a subscribe request that the stack answers with already-subscribed
\* leaves the subscription as a single subscribe with that attribute leaves
\* it (same handler, value and value handle, the matched attribute as CCC
\* handle, one registration, no event, bitmap untouched), and a 16-byte
\* payload is decoded once: one event for each changed bit.
C14_SubscribeIdempotent ==
    /\ [][(/\ last'.cb = "discovery"
           /\ \E i \in DOMAIN ops' :
                 ops'[i].op = "subscribe" /\ ops'[i].err = "EALREADY") =>
              /\ subscribe_params' =
                     [subscribe_params EXCEPT !.ccc_handle = last'.handle]
              /\ subs' = subs
              /\ events' = <<>>
              /\ position_state' = position_state]_vars
    /\ []((last.cb = "notify" /\ last.present
              /\ last.length = POSITION_STATE_DATA_LEN) =>
             Len(events) = Cardinality(Differing(last.prev_state, last.data)))

\* The subscribe was repeated with the handles of the registered
\* subscription and answered with already-subscribed.
C14_Witness ==
    /\ last.cb = "discovery"
    /\ ops = << Op("subscribe", last.conn, "EALREADY") >>
    /\ last.conn \in subs
    /\ last.handle = LAST_ATTRIBUTE_HANDLE
    /\ subscribe_params =
           [notify |-> "split_central_notify_func", value |-> BT_GATT_CCC_NOTIFY,
            value_handle |-> 21, ccc_handle |-> LAST_ATTRIBUTE_HANDLE]

\* C15: the walk that a service or characteristic result issues does not
\* start below the start of the walk that reported the result, for every
\* matched handle.
C15_StartNeverDecreases ==
    (last.cb = "discovery" /\ last.present
        /\ last.walk_type \in {"PRIMARY", "CHARACTERISTIC"}) =>
        \A i \in IssuedOps("discover") : ops[i].start_handle >= last.walk_start

\* The request ops[i] was issued by the discovery callback for an attribute
\* that a walk of the given type reported.
IssuedFromResultOf(type) ==
    last.cb = "discovery" /\ last.present /\ last.walk_type = type

\* C16: subscribe is invoked only from a descriptor-walk result, a descriptor
\* walk is issued only from a characteristic-walk result (which records the
\* value handle), and a characteristic walk only from a service-walk result:
\* so every subscribe follows the three results of its run in that order.
C16_SubscribeAfterThreePhases ==
    \A i \in DOMAIN ops :
        /\ ops[i].op = "subscribe" => IssuedFromResultOf("DESCRIPTOR")
        /\ (ops[i].op = "discover" /\ ops[i].type = "DESCRIPTOR") =>
               /\ IssuedFromResultOf("CHARACTERISTIC")
               /\ subscribe_params.value_handle = (last.handle + 1) % U16
        /\ (ops[i].op = "discover" /\ ops[i].type = "CHARACTERISTIC") =>
               IssuedFromResultOf("PRIMARY")

\* C17: the discovery cursor is empty after discovery completed (a
\* subscribe that the stack accepted, or an end-of-walk result) and after the
\* tracked connection disconnected.
C17_CursorEmptyWhenIdle ==
    ((\/ /\ last.cb = "discovery"
         /\ \/ ~last.present
            \/ \E i \in IssuedOps("subscribe") : ops[i].err \in {"OK", "EALREADY"}
      \/ /\ last.cb = "disconnected"
         /\ last.conn = last.prev_conn)) =>
        discover_params = ZeroDiscoverParams

\* C18: when a request for an attribute walk is refused (the service walk,
\* or the characteristic or descriptor walk issued from the discovery
\* callback), scanning is active after the callback.
C18_WalkFailureFallsBackToScan ==
    (\E i \in IssuedOps("discover") : ops[i].err # "OK") => scanning

\* No scan request of the callback was refused by the controller (an
\* already-running answer to a scan start is not a refusal: the scan runs).
ScanNeverRefused(o) ==
    \A i \in DOMAIN o :
        ~(o[i].op \in {"scan_start", "scan_stop"} /\ o[i].err = "EIO")

\* After initialisation, no connection tracked implies the scan is running.
NoDeadState(init, conn, scan) == init => (conn = NULL => scan)

\* C19: as long as no scan start or scan stop request is refused, every
\* state between callbacks after initialisation has the scan running when no
\* connection is tracked.  Stated step by step: initialisation establishes
\* it and every callback whose scan requests are not refused preserves it.
C19_NoDeadState ==
    [][(ScanNeverRefused(ops') /\ NoDeadState(initialized, default_conn, scanning)) =>
           NoDeadState(initialized', default_conn', scanning')]_vars

\* A connection attempt failed, the handle was released and the scan runs.
C19_Witness ==
    /\ last.cb = "connected"
    /\ last.err # 0
    /\ last.prev_conn # NULL
    /\ ScanNeverRefused(ops)
    /\ default_conn = NULL
    /\ scanning

\* C20: the stored bitmap is the payload of the most recent 16-byte
\* notification (a notification stores its payload, and nothing else changes
\* the bitmap), and the key state that all events raised so far add up to,
\* from all keys released, is the stored bitmap.
C20_BitmapIsKeyState ==
    /\ []((last.cb = "notify" /\ last.present
              /\ last.length = POSITION_STATE_DATA_LEN) =>
             position_state = last.data)
    /\ [][position_state' # position_state =>
             (last'.cb = "notify" /\ last'.present)]_vars
    /\ [](keys = position_state)

\* A key was pressed by one notification and released by a later one: the
\* last notification raised the release of position 0 and no key is held.
C20_Witness ==
    /\ last.cb = "notify" /\ last.present
    /\ last.length = POSITION_STATE_DATA_LEN
    /\ events = << [position |-> 0, state |-> FALSE] >>
    /\ keys = ZeroBitmap
    /\ position_state = ZeroBitmap

====
